---- MODULE Spec2Model ----
(***************************************************************************)
(* Google Sheets -> Gridly synchronisation (src/playrix/main.py).          *)
(* Cell text is modelled as a sequence of byte values, a row as a sequence *)
(* of cells, a Python dict as a record of its keys in insertion order and  *)
(* its values, and an Optional list as a record with an is_none flag.      *)
(***************************************************************************)
EXTENDS Integers, Sequences, FiniteSets, TLC

\* ------------------------------------------------------------------ bounds
\* Longest table (data rows) "Orders" may hold, in the source or in Gridly.
MaxRows == 2
\* Longest table (data rows) any other sheet or grid may hold.
MaxRowsOther == 1
\* Longest snapshot compared in the diff-only specification.
MaxLen == 3

\* ------------------------------------------------------------ cell strings
Ca == <<97>>
Cb == <<98>>
Cc == <<99>>
Cab == <<97, 98>>
Cbc == <<98, 99>>
Chdr == <<105, 100>>

\* Rows of the diff-only specification: an edit that keeps cells[0]
\* (RowAB -> RowAC) and a pair whose cells differ but whose text joins to
\* the same bytes (RowA_BC, RowAB_C).
RowAB == <<Ca, Cb>>
RowAC == <<Ca, Cc>>
RowA_BC == <<Ca, Cbc>>
RowAB_C == <<Cab, Cc>>
RowHeader == <<Chdr, Chdr>>
DiffRows == {RowAB, RowAC, RowA_BC, RowAB_C}
LoopRows == {RowAB, RowAC}

RECURSIVE SeqsUpTo(_, _)
SeqsUpTo(S, n) ==
  IF n = 0 THEN {<<>>}
  ELSE LET shorter == SeqsUpTo(S, n - 1)
       IN  shorter \cup {Append(s, x) : s \in {t \in shorter : Len(t) = n - 1}, x \in S}

\* ------------------------------------------------------------------ crc32
\* zlib.crc32: reflected CRC-32, polynomial 0xEDB88320, initial value and
\* final xor 0xFFFFFFFF.  A 32-bit word is a sequence of 32 bits, least
\* significant first; the checksum is reported as <<high 16 bits, low 16 bits>>.
RECURSIVE ToBits(_, _)
ToBits(n, w) == IF w = 0 THEN <<>> ELSE <<n % 2>> \o ToBits(n \div 2, w - 1)

RECURSIVE FromBits(_)
FromBits(bits) == IF bits = <<>> THEN 0 ELSE bits[1] + 2 * FromBits(Tail(bits))

CrcPoly == ToBits(33568, 16) \o ToBits(60856, 16)
AllOnes == [i \in 1..32 |-> 1]

XorBits(x, y) == [i \in 1..32 |-> (x[i] + y[i]) % 2]
ShiftRight(x) == [i \in 1..32 |-> IF i = 32 THEN 0 ELSE x[i + 1]]

RECURSIVE CrcShift(_, _)
CrcShift(crc, k) ==
  IF k = 0 THEN crc
  ELSE CrcShift(IF crc[1] = 1 THEN XorBits(ShiftRight(crc), CrcPoly)
                ELSE ShiftRight(crc), k - 1)

RECURSIVE CrcBytes(_, _)
CrcBytes(crc, bytes) ==
  IF bytes = <<>> THEN crc
  ELSE CrcBytes(CrcShift(XorBits(crc, ToBits(bytes[1], 8) \o [i \in 1..24 |-> 0]), 8),
                Tail(bytes))

crc32(bytes) ==
  LET bits == XorBits(CrcBytes(AllOnes, bytes), AllOnes)
  IN  <<FromBits(SubSeq(bits, 17, 32)), FromBits(SubSeq(bits, 1, 16))>>

\* Mutant: the cells are joined with a comma between them (",".join).
RECURSIVE Join_sep(_)
Join_sep(row_data) ==
  IF row_data = <<>> THEN <<>>
  ELSE row_data[1] \o (IF Tail(row_data) = <<>> THEN <<>>
                        ELSE <<44>> \o Join_sep(Tail(row_data)))

\* "".join(row_data)
RECURSIVE Join(_)
Join(row_data) == IF row_data = <<>> THEN <<>> ELSE row_data[1] \o Join(Tail(row_data))

\* The checksums of the rows the environment draws from, computed once.
KnownRows == DiffRows \cup LoopRows \cup {RowHeader}
KnownHash == [row \in KnownRows |-> crc32(Join(row))]

compute_row_hash(row_data) ==
  IF row_data \in KnownRows THEN KnownHash[row_data] ELSE crc32(Join(row_data))

\* ------------------------------------------------------------- data model
None == "None"

\* @dataclass RowChecksum
RowChecksum(row_id, row_checksum, row_content) ==
  [row_id |-> row_id, row_checksum |-> row_checksum, row_content |-> row_content]

\* @dataclass SheetChecksum (reference defaults to None, hashed_rows to [])
SheetChecksum(sheet_title, reference, hashed_rows) ==
  [sheet_title |-> sheet_title, reference |-> reference, hashed_rows |-> hashed_rows]

\* A dict: its keys in insertion order, and its values.
EmptyDict == [keys |-> <<>>, val |-> [k \in {} |-> {}]]
Range(s) == {s[i] : i \in DOMAIN s}
Has(d, k) == k \in Range(d.keys)
DictPut(d, k, v) ==
  [keys |-> IF Has(d, k) THEN d.keys ELSE Append(d.keys, k),
   val  |-> [j \in Range(d.keys) \cup {k} |-> IF j = k THEN v ELSE d.val[j]]]

\* An Optional[list]: None, or a list.
NoneResult == [is_none |-> TRUE, rows |-> <<>>]
ListResult(rows) == [is_none |-> FALSE, rows |-> rows]
\* Python truth value of an Optional[list]: None and [] are both false.
Truthy(r) == ~r.is_none /\ r.rows # <<>>

\* seq[-n:] for n >= 0 (seq[-0:] is the whole list)
SliceLast(seq, n) ==
  IF n = 0 \/ n >= Len(seq) THEN seq ELSE SubSeq(seq, Len(seq) - n + 1, Len(seq))

\* ------------------------------------------------------- snapshot builders
\* The outcome of SheetsClient.get_sheet_data: it raises, or returns the
\* values (header row first; [] when the range holds nothing).
ReadRaises == [raises |-> TRUE, values |-> <<>>]
ReadValues(values) == [raises |-> FALSE, values |-> values]

\* Mutant: row_id is the index of enumerate(data[1:], 1) itself (i, not i-1).
HashRows_from_one(data) ==
  [i \in 1..(Len(data) - 1) |->
     RowChecksum(i, compute_row_hash(data[i + 1]), data[i + 1])]

\* hashed_rows of process_sheet: the header row is skipped, row_id is the
\* 0-based index among the data rows.
HashRows(data) ==
  [i \in 1..(Len(data) - 1) |->
     RowChecksum(i - 1, compute_row_hash(data[i + 1]), data[i + 1])]

\* process_sheet: the dict afterwards.  An exception is caught and logged,
\* empty data returns early; both leave the dict without the title.
process_sheet(title, outcome, sheet_hashes) ==
  IF outcome.raises THEN sheet_hashes
  ELSE IF outcome.values = <<>> THEN sheet_hashes
  ELSE DictPut(sheet_hashes, title, SheetChecksum(title, None, HashRows(outcome.values)))

\* process_sheet for every title of sheet_names, in order, into a fresh dict
RECURSIVE process_sheets(_, _, _)
process_sheets(names, outcomes, sheet_hashes) ==
  IF names = <<>> THEN sheet_hashes
  ELSE process_sheets(Tail(names), outcomes,
                      process_sheet(names[1], outcomes[names[1]], sheet_hashes))

\* The view of a grid (GridlyClient.fetch_grid_view(...)['id'])
ViewId(name) == "view_" \o name

\* The outcome of the Gridly reads of one grid: one of them raises, or the
\* records of the view.
GridRaises == [raises |-> TRUE, records |-> <<>>]
GridRecords(records) == [raises |-> FALSE, records |-> records]
Record(id, cells) == [id |-> id, cells |-> cells]

\* process_gridly_grid: the dict afterwards
process_gridly_grid(name, outcome, gridly_sheets_) ==
  IF outcome.raises THEN gridly_sheets_
  ELSE DictPut(gridly_sheets_, name,
         SheetChecksum(name, ViewId(name),
           [i \in 1..Len(outcome.records) |->
              LET processed_rows == <<outcome.records[i].id>> \o outcome.records[i].cells
              IN  RowChecksum(i - 1, compute_row_hash(processed_rows), processed_rows)]))

RECURSIVE process_gridly_grids(_, _, _)
process_gridly_grids(grids, outcomes, gridly_sheets_) ==
  IF grids = <<>> THEN gridly_sheets_
  ELSE process_gridly_grids(Tail(grids), outcomes,
                            process_gridly_grid(grids[1], outcomes[grids[1]], gridly_sheets_))

\* ------------------------------------------------------------ diff engine
\* {row.row_id: row.row_checksum for row in hashed_rows}: a later row with
\* the same row_id overwrites an earlier one.
hashed_sheet_dict(hashed_rows) ==
  [id \in {hashed_rows[i].row_id : i \in DOMAIN hashed_rows} |->
     LET last == CHOOSE i \in DOMAIN hashed_rows :
                   /\ hashed_rows[i].row_id = id
                   /\ \A j \in DOMAIN hashed_rows : j > i => hashed_rows[j].row_id # id
     IN  hashed_rows[last].row_checksum]

RECURSIVE FilterChanged(_, _)
FilterChanged(rows, dict) ==
  IF rows = <<>> THEN <<>>
  ELSE LET row == rows[1]
           rest == FilterChanged(Tail(rows), dict)
       IN  IF row.row_id \in DOMAIN dict /\ dict[row.row_id] # row.row_checksum
           THEN <<row>> \o rest ELSE rest

\* Mutant: a missing title gives an empty list instead of None.
sheets_equal_empty(gridly_title, hashed_sheet, google_sheets) ==
  IF ~Has(google_sheets, gridly_title) THEN ListResult(<<>>)
  ELSE ListResult(FilterChanged(google_sheets.val[gridly_title].hashed_rows,
                                hashed_sheet_dict(hashed_sheet.hashed_rows)))

\* Mutant: a candidate row without a baseline checksum counts as changed
\* (hashed_sheet_dict.get(row.row_id) != row.row_checksum).
RECURSIVE FilterChangedGet(_, _)
FilterChangedGet(rows, dict) ==
  IF rows = <<>> THEN <<>>
  ELSE LET row == rows[1]
           rest == FilterChangedGet(Tail(rows), dict)
       IN  IF row.row_id \notin DOMAIN dict \/ dict[row.row_id] # row.row_checksum
           THEN <<row>> \o rest ELSE rest

sheets_equal_get(gridly_title, hashed_sheet, google_sheets) ==
  IF ~Has(google_sheets, gridly_title) THEN NoneResult
  ELSE ListResult(FilterChangedGet(google_sheets.val[gridly_title].hashed_rows,
                                   hashed_sheet_dict(hashed_sheet.hashed_rows)))

sheets_equal(gridly_title, hashed_sheet, google_sheets) ==
  IF ~Has(google_sheets, gridly_title) THEN NoneResult
  ELSE ListResult(FilterChanged(google_sheets.val[gridly_title].hashed_rows,
                                hashed_sheet_dict(hashed_sheet.hashed_rows)))

\* Mutant: the first diff rows instead of the last (hashed_rows[:diff]).
find_new_rows_head(current_google_hash_, gridly_sheet) ==
  IF ~Has(current_google_hash_, gridly_sheet.sheet_title) THEN NoneResult
  ELSE LET google_sheet == current_google_hash_.val[gridly_sheet.sheet_title]
           diff == Len(google_sheet.hashed_rows) - Len(gridly_sheet.hashed_rows)
       IN  IF diff <= 0 THEN NoneResult
           ELSE ListResult(SubSeq(google_sheet.hashed_rows, 1, diff))

\* Mutant: the guard is diff < 0, so that equal lengths reach hashed_rows[-0:].
find_new_rows_lt(current_google_hash_, gridly_sheet) ==
  IF ~Has(current_google_hash_, gridly_sheet.sheet_title) THEN NoneResult
  ELSE LET google_sheet == current_google_hash_.val[gridly_sheet.sheet_title]
           diff == Len(google_sheet.hashed_rows) - Len(gridly_sheet.hashed_rows)
       IN  IF diff < 0 THEN NoneResult
           ELSE ListResult(SliceLast(google_sheet.hashed_rows, diff))

find_new_rows(current_google_hash_, gridly_sheet) ==
  IF ~Has(current_google_hash_, gridly_sheet.sheet_title) THEN NoneResult
  ELSE LET google_sheet == current_google_hash_.val[gridly_sheet.sheet_title]
           diff == Len(google_sheet.hashed_rows) - Len(gridly_sheet.hashed_rows)
       IN  IF diff <= 0 THEN NoneResult
           ELSE ListResult(SliceLast(google_sheet.hashed_rows, diff))

\* --------------------------------------------------------- Gridly pushes
\* One HTTP request of GridlyClient: PATCH /views/{view_id}/records/{id}
\* (update_row) or POST /views/{view_id}/records (create_rows).  title names
\* the table the loop was processing.
Call(title, op, view_id, record_ids, rows) ==
  [title |-> title, op |-> op, view_id |-> view_id, record_ids |-> record_ids,
   rows |-> rows, ok |-> TRUE]

\* Mutant: the loop over the rows is left after the first PATCH.
update_gridly_row_first(title, view_id, rows) ==
  [i \in 1..(IF rows = <<>> THEN 0 ELSE 1) |->
     Call(title, "update_row", view_id, <<rows[i].row_content[1]>>, <<rows[i]>>)]

\* GridlyClient.update_gridly_row: one PATCH per row, keyed by row_content[0]
update_gridly_row(title, view_id, rows) ==
  [i \in 1..Len(rows) |->
     Call(title, "update_row", view_id, <<rows[i].row_content[1]>>, <<rows[i]>>)]

\* Mutant: the first of the new rows is left out of the POST.
add_rows_to_gridly_skip(title, view_id, new_rows) ==
  <<Call(title, "create_rows", view_id,
         [i \in 1..(Len(new_rows) - 1) |-> new_rows[i + 1].row_content[1]],
         Tail(new_rows))>>

\* GridlyClient.add_rows_to_gridly: one POST with every row
add_rows_to_gridly(title, view_id, new_rows) ==
  <<Call(title, "create_rows", view_id,
         [i \in 1..Len(new_rows) |-> new_rows[i].row_content[1]], new_rows)>>

\* Mutant: the reference is not carried into the fresh snapshot.
carry_reference_lost(google_hash, title, sheet) == google_hash

\* current_google_hash[title].reference = sheet.reference
carry_reference(google_hash, title, sheet) ==
  [google_hash EXCEPT !.val[title].reference = sheet.reference]

\* Mutant: the new rows are created before the changed rows are updated.
sync_calls_create_first(title, sheet, google_hash) ==
  LET rows_to_push == sheets_equal(title, sheet, google_hash)
      new_rows == find_new_rows(google_hash, sheet)
  IN  (IF Truthy(new_rows)
       THEN add_rows_to_gridly(title, sheet.reference, new_rows.rows) ELSE <<>>)
      \o
      (IF Truthy(rows_to_push)
       THEN update_gridly_row(title, sheet.reference, rows_to_push.rows) ELSE <<>>)

\* The requests one iteration of the table loop makes when none fails:
\* the updates of the changed rows, then the creation of the new rows.
sync_calls(title, sheet, google_hash) ==
  LET rows_to_push == sheets_equal(title, sheet, google_hash)
      new_rows == find_new_rows(google_hash, sheet)
  IN  (IF Truthy(rows_to_push)
       THEN update_gridly_row(title, sheet.reference, rows_to_push.rows) ELSE <<>>)
      \o
      (IF Truthy(new_rows)
       THEN add_rows_to_gridly(title, sheet.reference, new_rows.rows) ELSE <<>>)

\* Mutant: the stored state is not replaced.
replace_state_keep(gridly_sheets_, google_hash) == gridly_sheets_

\* gridly_sheets = current_google_hash, at the end of an iteration
replace_state(gridly_sheets_, google_hash) == google_hash

\* status of the initial comparison
initial_status(title, sheet, init_sheet_hash) ==
  IF Truthy(sheets_equal(title, sheet, init_sheet_hash))
  THEN "fully matches" ELSE "does not match"

\* ------------------------------------------------------------ environment
\* SHEET_NAMES.split(',')
sheet_names == <<"Orders", "Items">>
\* What fetch_grids_by_database_id may list: configured tables in either
\* order, a part of them, and a grid that is no configured sheet.
GridListings ==
  {<<>>, <<"Orders">>, <<"Items">>, <<"Orders", "Items">>, <<"Items", "Orders">>,
   <<"Orders", "Extra">>}

Tables(name) == SeqsUpTo(LoopRows, IF name = "Orders" THEN MaxRows ELSE MaxRowsOther)
\* What get_sheet_data may do for the sheet `name`
ReadOutcomes(name) ==
  {ReadRaises, ReadValues(<<>>)} \cup {ReadValues(<<RowHeader>> \o t) : t \in Tables(name)}
\* What the Gridly reads of the grid `name` may do
GridOutcomes(name) ==
  {GridRaises} \cup
  {GridRecords([i \in 1..Len(t) |-> Record(t[i][1], Tail(t[i]))]) : t \in Tables(name)}
\* One read outcome per sheet name, one Gridly outcome per listed grid
ReadOutcomesOf(names) ==
  {f \in [names -> UNION {ReadOutcomes(n) : n \in names}] :
     \A n \in names : f[n] \in ReadOutcomes(n)}
GridOutcomesOf(names) ==
  {f \in [names -> UNION {GridOutcomes(n) : n \in names}] :
     \A n \in names : f[n] \in GridOutcomes(n)}

OutcomeKind(outcome) ==
  IF outcome.raises THEN "raised" ELSE IF outcome.values = <<>> THEN "empty" ELSE "ok"

\* ------------------------------------------------------------------ state
VARIABLES
  pc,                  \* where main() is: bootstrap, cycle_start, tables, terminated
  first_cycle,         \* no cycle has completed yet
  gridly_sheets,       \* the dict the name gridly_sheets is bound to
  current_google_hash, \* the dict built at the start of the cycle
  iterating,           \* the dict the for loop of the cycle iterates over
  idx,                 \* position of that loop (1-based) in iterating.keys
  calls,               \* the Gridly requests of the current cycle, in order
  fatal,               \* what escaped to the except clause of main()
  read_outcome,        \* per sheet name, how its read of this cycle ended
  boot_compare,        \* what sheets_equal returned in the initial comparison,
                       \* per grid (kept as long as boot_status)
  boot_status,         \* status logged by the initial comparison, per grid
                       \* (kept until the first cycle begins)
  boot_refs,           \* reference of every grid snapshotted at bootstrap
  prev_rows,           \* per table processed in the previous completed cycle,
                       \* the source rows it was synchronised to
  prev_pushed,         \* between two cycles: titles with a request in the
                       \* cycle that has just completed
  settled,             \* in a cycle: titles with a request in the previous
                       \* cycle whose source rows were read unchanged in this one
  d_pc,                \* diff-only specification: input, built, compared
  d_base,              \* raw rows (header first) of the baseline
  d_cand,              \* outcome of reading the candidate
  d_gridly_sheet,      \* baseline snapshot
  d_google_sheets,     \* the dict holding the candidate snapshot, if any
  d_changed,           \* result of sheets_equal
  d_new                \* result of find_new_rows

loop_vars == <<pc, first_cycle, gridly_sheets, current_google_hash, iterating, idx,
               calls, fatal, read_outcome, boot_compare, boot_status, boot_refs,
               prev_rows, prev_pushed, settled>>
diff_vars == <<d_pc, d_base, d_cand, d_gridly_sheet, d_google_sheets, d_changed, d_new>>
vars == <<loop_vars, diff_vars>>

\* BOOTSTRAPPING -> RUNNING -> TERMINATED
state ==
  CASE pc = "bootstrap" -> "BOOTSTRAPPING"
    [] pc = "terminated" -> "TERMINATED"
    [] OTHER -> "RUNNING"

NoFunction == [k \in {} |-> {}]

LoopInit ==
  /\ pc = "bootstrap"
  /\ first_cycle = TRUE
  /\ gridly_sheets = EmptyDict
  /\ current_google_hash = EmptyDict
  /\ iterating = EmptyDict
  /\ idx = 1
  /\ calls = <<>>
  /\ fatal = "none"
  /\ read_outcome = NoFunction
  /\ boot_status = NoFunction
  /\ boot_compare = NoFunction
  /\ boot_refs = NoFunction
  /\ prev_rows = NoFunction
  /\ prev_pushed = {}
  /\ settled = {}

DiffIdle ==
  /\ d_pc = "idle"
  /\ d_base = <<>>
  /\ d_cand = ReadRaises
  /\ d_gridly_sheet = SheetChecksum("Orders", None, <<>>)
  /\ d_google_sheets = EmptyDict
  /\ d_changed = NoneResult
  /\ d_new = NoneResult

Init == LoopInit /\ DiffIdle

\* ------------------------------------------------------------- bootstrap
\* main(), from the first process_sheet to the initial comparison
Bootstrap ==
  /\ pc = "bootstrap"
  /\ \E src \in ReadOutcomesOf(Range(sheet_names)), grids \in GridListings :
       \E dst \in GridOutcomesOf(Range(grids)) :
         LET init_sheet_hash == process_sheets(sheet_names, src, EmptyDict)
             sheets == process_gridly_grids(grids, dst, EmptyDict)
         IN  /\ gridly_sheets' = sheets
             /\ boot_compare' = [t \in Range(sheets.keys) |->
                                   sheets_equal(t, sheets.val[t], init_sheet_hash)]
             /\ boot_status' = [t \in Range(sheets.keys) |->
                                  initial_status(t, sheets.val[t], init_sheet_hash)]
             /\ boot_refs' = [t \in Range(sheets.keys) |-> sheets.val[t].reference]
  /\ pc' = "cycle_start"
  /\ UNCHANGED <<first_cycle, current_google_hash, iterating, idx, calls, fatal,
                 read_outcome, prev_rows, prev_pushed, settled, diff_vars>>

\* Mutant: the exception is logged and not re-raised; the loop is entered.
BootstrapFails_continue ==
  /\ pc = "bootstrap"
  /\ pc' = "cycle_start"
  /\ fatal' = "fetch_grids"
  /\ UNCHANGED <<first_cycle, gridly_sheets, current_google_hash, iterating, idx, calls,
                 read_outcome, boot_compare, boot_status, boot_refs, prev_rows, prev_pushed,
                 settled, diff_vars>>

\* fetch_grids_by_database_id raises: logged and re-raised
BootstrapFails ==
  /\ pc = "bootstrap"
  /\ pc' = "terminated"
  /\ fatal' = "fetch_grids"
  /\ UNCHANGED <<first_cycle, gridly_sheets, current_google_hash, iterating, idx, calls,
                 read_outcome, boot_compare, boot_status, boot_refs, prev_rows, prev_pushed,
                 settled, diff_vars>>

\* ------------------------------------------------------------------ cycle
\* The head of the while loop: every sheet is read into a fresh dict, and the
\* for loop over gridly_sheets.items() begins.
StartCycle ==
  /\ pc = "cycle_start"
  /\ \E src \in ReadOutcomesOf(Range(sheet_names)) :
       LET google_hash == process_sheets(sheet_names, src, EmptyDict)
       IN  /\ current_google_hash' = google_hash
           /\ read_outcome' = [t \in Range(sheet_names) |-> OutcomeKind(src[t])]
           /\ settled' = {t \in prev_pushed :
                            /\ Has(google_hash, t)
                            /\ google_hash.val[t].hashed_rows = prev_rows[t]}
  /\ prev_pushed' = {}
  /\ iterating' = gridly_sheets
  /\ idx' = 1
  /\ boot_status' = NoFunction
  /\ boot_compare' = NoFunction
  /\ pc' = "tables"
  /\ UNCHANGED <<first_cycle, gridly_sheets, calls, fatal, boot_refs,
                 prev_rows, diff_vars>>

Title == iterating.keys[idx]
Sheet == iterating.val[Title]
InTableLoop == pc = "tables" /\ idx <= Len(iterating.keys)

\* current_google_hash[title] raises KeyError: the sheet was not read in
\* this cycle.  The exception reaches the except clause of main().
ProcessTableKeyError ==
  /\ InTableLoop
  /\ ~Has(current_google_hash, Title)
  /\ pc' = "terminated"
  /\ fatal' = "KeyError"
  /\ UNCHANGED <<first_cycle, gridly_sheets, current_google_hash, iterating, idx, calls,
                 read_outcome, boot_compare, boot_status, boot_refs, prev_rows, prev_pushed,
                 settled, diff_vars>>

\* One iteration of the for loop in which every request succeeds
ProcessTable ==
  /\ InTableLoop
  /\ Has(current_google_hash, Title)
  /\ LET google_hash == carry_reference(current_google_hash, Title, Sheet)
     IN  /\ calls' = calls \o sync_calls(Title, Sheet, google_hash)
         /\ current_google_hash' = google_hash
         /\ gridly_sheets' = replace_state(gridly_sheets, google_hash)
  /\ idx' = idx + 1
  /\ UNCHANGED <<pc, first_cycle, iterating, fatal, read_outcome, boot_compare, boot_status, boot_refs,
                 prev_rows, prev_pushed, settled, diff_vars>>

\* One iteration in which the k-th request raises (raise_for_status): the
\* requests before it were made, the rest of the iteration is not run, and
\* the exception reaches the except clause of main().
ProcessTablePushFails ==
  /\ InTableLoop
  /\ Has(current_google_hash, Title)
  /\ LET google_hash == carry_reference(current_google_hash, Title, Sheet)
         planned == sync_calls(Title, Sheet, google_hash)
     IN  /\ \E k \in 1..Len(planned) :
               calls' = calls \o SubSeq(planned, 1, k - 1)
                              \o <<[planned[k] EXCEPT !.ok = FALSE]>>
         /\ current_google_hash' = google_hash
  /\ pc' = "terminated"
  /\ fatal' = "push"
  /\ UNCHANGED <<first_cycle, gridly_sheets, iterating, idx, read_outcome, boot_compare, boot_status,
                 boot_refs, prev_rows, prev_pushed, settled, diff_vars>>

\* After the last table of the cycle: time.sleep(PAUSE_DURATION), and the
\* while loop begins again with current_google_hash = {}.  The iterator of
\* the finished for loop is gone; the request log starts afresh.
Sleep ==
  /\ pc = "tables"
  /\ idx > Len(iterating.keys)
  /\ pc' = "cycle_start"
  /\ first_cycle' = FALSE
  /\ current_google_hash' = EmptyDict
  /\ iterating' = EmptyDict
  /\ idx' = 1
  /\ calls' = <<>>
  /\ read_outcome' = NoFunction
  /\ prev_rows' = [t \in Range(iterating.keys) |-> current_google_hash.val[t].hashed_rows]
  /\ prev_pushed' = {calls[i].title : i \in DOMAIN calls}
  /\ settled' = {}
  /\ UNCHANGED <<gridly_sheets, fatal, boot_compare, boot_status, boot_refs, diff_vars>>

Next ==
  \/ Bootstrap
  \/ BootstrapFails
  \/ StartCycle
  \/ ProcessTableKeyError
  \/ ProcessTable
  \/ ProcessTablePushFails
  \/ Sleep

Spec == Init /\ [][Next]_vars

\* ------------------------------------------------ diff-only specification
\* The two diff operations applied to a baseline and a candidate built by
\* the snapshot builder from every pair of small tables.
DiffTables == SeqsUpTo(DiffRows, MaxLen)

InitDiff ==
  /\ LoopInit
  /\ d_pc = "input"
  /\ d_base \in {<<RowHeader>> \o t : t \in DiffTables}
  /\ d_cand \in {ReadRaises, ReadValues(<<>>)}
                \cup {ReadValues(<<RowHeader>> \o t) : t \in DiffTables}
  /\ d_gridly_sheet = SheetChecksum("Orders", None, <<>>)
  /\ d_google_sheets = EmptyDict
  /\ d_changed = NoneResult
  /\ d_new = NoneResult

DiffBuild ==
  /\ d_pc = "input"
  /\ d_gridly_sheet' = process_sheet("Orders", ReadValues(d_base), EmptyDict).val["Orders"]
  /\ d_google_sheets' = process_sheet("Orders", d_cand, EmptyDict)
  /\ d_pc' = "built"
  /\ UNCHANGED <<loop_vars, d_base, d_cand, d_changed, d_new>>

DiffCompare ==
  /\ d_pc = "built"
  /\ d_changed' = sheets_equal("Orders", d_gridly_sheet, d_google_sheets)
  /\ d_new' = find_new_rows(d_google_sheets, d_gridly_sheet)
  /\ d_pc' = "compared"
  /\ UNCHANGED <<loop_vars, d_base, d_cand, d_gridly_sheet, d_google_sheets>>

NextDiff == DiffBuild \/ DiffCompare

SpecDiff == InitDiff /\ [][NextDiff]_vars

\* ------------------------------------------------- properties of the diff
BaseRows == d_gridly_sheet.hashed_rows
CandRows == d_google_sheets.val["Orders"].hashed_rows
Compared == d_pc = "compared" /\ Has(d_google_sheets, "Orders")

\* The candidate is the baseline followed by at least one more row.
TailAppendCase ==
  /\ d_pc = "compared"
  /\ ~d_cand.raises
  /\ Len(d_cand.values) > Len(d_base)
  /\ SubSeq(d_cand.values, 1, Len(d_base)) = d_base

\* C4: when the candidate equals the baseline followed by k >= 1 appended
\* rows, find_new_rows returns exactly those k rows, in position order, and
\* sheets_equal returns an empty list.
C4_TailAppend ==
  TailAppendCase =>
    LET n == Len(d_base) - 1
        k == Len(d_cand.values) - Len(d_base)
    IN  /\ d_new = ListResult([i \in 1..k |->
                      RowChecksum(n + i - 1, compute_row_hash(d_cand.values[n + 1 + i]),
                                  d_cand.values[n + 1 + i])])
        /\ d_changed = ListResult(<<>>)

C4_Witness ==
  /\ TailAppendCase
  /\ Len(d_base) >= 2
  /\ Len(d_cand.values) >= Len(d_base) + 2
  /\ Len(d_new.rows) = Len(d_cand.values) - Len(d_base)

\* The candidate rows at a position the baseline has too, whose checksum
\* differs from the baseline's at that position.
ChangedAt(r) ==
  /\ r.row_id < Len(BaseRows)
  /\ r.row_checksum # BaseRows[r.row_id + 1].row_checksum
ExpectedChanged == SelectSeq(CandRows, ChangedAt)

Ascending(rows) ==
  \A i, j \in DOMAIN rows : i < j => rows[i].row_id < rows[j].row_id

\* Positions (1-based) at which both snapshots have a row and f differs
DifferingBy(f(_)) ==
  {i \in DOMAIN CandRows \cap DOMAIN BaseRows : f(CandRows[i]) # f(BaseRows[i])}
ChecksumOf(r) == r.row_checksum
CellsOf(r) == r.row_content

C5_Characterisation ==
  /\ d_changed = ListResult(ExpectedChanged)
  /\ Ascending(d_changed.rows)
  /\ \A i \in DOMAIN d_changed.rows : d_changed.rows[i].row_id < Len(BaseRows)

\* C5 (as amended): sheets_equal returns, in ascending position order,
\* exactly the candidate rows whose position exists in the baseline and
\* whose checksum differs there, and never a row beyond the baseline's
\* length; when exactly one row's checksum differs, exactly that candidate
\* row is returned.
C5_ChangedRows ==
  Compared =>
    /\ C5_Characterisation
    /\ \A p \in DOMAIN CandRows :
         (Len(CandRows) = Len(BaseRows) /\ DifferingBy(ChecksumOf) = {p})
           => d_changed.rows = <<CandRows[p]>>

C5_Witness ==
  /\ Compared
  /\ Len(CandRows) = 3
  /\ Len(BaseRows) = 3
  /\ DifferingBy(ChecksumOf) = {2}
  /\ d_changed.rows = <<CandRows[2]>>

\* C5 as stated: the same, with "exactly one row's cells differ" for the
\* single-change case.
C5_Original ==
  Compared =>
    /\ C5_Characterisation
    /\ \A p \in DOMAIN CandRows :
         (Len(CandRows) = Len(BaseRows) /\ DifferingBy(CellsOf) = {p})
           => d_changed.rows = <<CandRows[p]>>

\* The candidate was read as exactly the rows of the baseline.
IdenticalCase == d_pc = "compared" /\ d_cand = ReadValues(d_base)

\* C7: comparing a snapshot with a snapshot of identical rows reports no
\* changed row and no new row.
C7_NoOpComparison ==
  IdenticalCase => (d_changed = ListResult(<<>>) /\ d_new.rows = <<>>)

C7_Witness ==
  /\ IdenticalCase
  /\ Len(BaseRows) >= 2
  /\ d_changed.rows = <<>>
  /\ ~Truthy(d_new)

\* ------------------------------------------------- properties of the loop
\* The tables whose iteration of the for loop has been run in this cycle: the
\* finished ones and, after a failed request, the one it was made for.
Handled ==
  IF pc \notin {"tables", "terminated"} THEN {}
  ELSE {iterating.keys[i] : i \in 1..(idx - 1)}
       \cup (IF fatal = "push" THEN {Title} ELSE {})

CallsFor(t) == {i \in DOMAIN calls : calls[i].title = t}
SourceRows(t) == current_google_hash.val[t].hashed_rows
StoredRows(t) == iterating.val[t].hashed_rows

\* A sheet whose read ended as `kind` in this cycle and that is a table of
\* the destination state.
ReadEnded(t, kind) ==
  /\ pc \in {"tables", "terminated"}
  /\ t \in DOMAIN read_outcome
  /\ read_outcome[t] = kind
  /\ Has(iterating, t)

TerminatedBy(t) == state = "TERMINATED" /\ fatal = "KeyError" /\ Title = t

\* C1: a failed source read of a table of the destination state does not
\* terminate the loop.
C1_ReadFailureKeepsRunning ==
  \A t \in Range(sheet_names) : ReadEnded(t, "raised") => ~TerminatedBy(t)

\* C2: a failed push does not terminate the loop.
C2_PushFailureKeepsRunning ==
  (\E i \in DOMAIN calls : ~calls[i].ok) => state # "TERMINATED"

\* C3: a source read that returns no rows at all for a table of the
\* destination state does not terminate the loop.
C3_EmptyReadKeepsRunning ==
  \A t \in Range(sheet_names) : ReadEnded(t, "empty") => ~TerminatedBy(t)

\* C6: a table synchronised in the previous cycle whose source rows are the
\* same in this cycle gets no update_row and no create_rows request in it.
C6_Converged ==
  \A t \in Handled :
    (~first_cycle /\ t \in DOMAIN prev_rows /\ SourceRows(t) = prev_rows[t])
      => CallsFor(t) = {}

C6_Witness ==
  /\ pc = "tables"
  /\ ~first_cycle
  /\ \E t \in Handled :
       /\ t \in settled
       /\ t \in DOMAIN prev_rows
       /\ SourceRows(t) = prev_rows[t]
       /\ SourceRows(t) # <<>>
       /\ CallsFor(t) = {}

\* The source snapshot of the table has no more rows than the stored one.
NotGrown(t) == Len(SourceRows(t)) <= Len(StoredRows(t))

\* C8: when the source snapshot has no more rows than the stored state, no
\* create_rows request is made for the table, and every update_row request
\* carries a source row at a position the source still has, whose checksum
\* differs from the stored one there: nothing is pushed for removed rows.
C8_ShrinkageInvisible ==
  \A t \in Handled :
    NotGrown(t) =>
      \A i \in CallsFor(t) :
        /\ calls[i].op = "update_row"
        /\ \A j \in DOMAIN calls[i].rows :
             LET r == calls[i].rows[j]
             IN  /\ r.row_id < Len(SourceRows(t))
                 /\ r = SourceRows(t)[r.row_id + 1]
                 /\ r.row_checksum # StoredRows(t)[r.row_id + 1].row_checksum

C8_Witness ==
  /\ pc = "tables"
  /\ \E t \in Handled :
       /\ Len(SourceRows(t)) < Len(StoredRows(t))
       /\ Len(SourceRows(t)) >= 1
       /\ Cardinality(CallsFor(t)) = 1

\* The first cycle meets a table whose bootstrap snapshot has no rows and
\* whose source has at least one data row.
BootstrapEmptyCase(t) ==
  /\ first_cycle
  /\ t \in Handled
  /\ t \in DOMAIN boot_refs
  /\ StoredRows(t) = <<>>
  /\ SourceRows(t) # <<>>

\* C9: in that case the cycle makes no update_row request for the table and
\* exactly one create_rows request, which carries all source rows and is
\* addressed to the reference resolved at bootstrap.
C9_BootstrapThenSync ==
  \A t \in Range(iterating.keys) :
    BootstrapEmptyCase(t) =>
      \E i \in DOMAIN calls :
        /\ CallsFor(t) = {i}
        /\ calls[i].op = "create_rows"
        /\ calls[i].rows = SourceRows(t)
        /\ calls[i].record_ids = [j \in DOMAIN SourceRows(t) |-> SourceRows(t)[j].row_content[1]]
        /\ calls[i].view_id = boot_refs[t]
        /\ calls[i].view_id # None

C9_Witness ==
  /\ pc = "tables"
  /\ \E t \in Range(iterating.keys) :
       /\ BootstrapEmptyCase(t)
       /\ Len(SourceRows(t)) = 2
       /\ \A i \in CallsFor(t) : calls[i].ok

KeyIndex(t) == CHOOSE i \in DOMAIN iterating.keys : iterating.keys[i] = t

\* C10: the requests of a cycle are made table by table in the order of the
\* loop, and for one table every update_row precedes the create_rows.
C10_PushOrdering ==
  \A i, j \in DOMAIN calls :
    i < j =>
      /\ KeyIndex(calls[i].title) <= KeyIndex(calls[j].title)
      /\ calls[i].title = calls[j].title
           => ~(calls[i].op = "create_rows" /\ calls[j].op = "update_row")

C10_Witness ==
  /\ pc = "tables"
  /\ \E i, j, k \in DOMAIN calls :
       /\ i < j /\ j < k
       /\ calls[i].title = calls[j].title
       /\ calls[i].op = "update_row"
       /\ calls[j].op = "create_rows"
       /\ calls[k].title # calls[j].title

\* The last table of the cycle has been processed; the loop is about to sleep.
CycleCompleted == pc = "tables" /\ idx > Len(iterating.keys)

\* C11: after every completed cycle, each table snapshotted at bootstrap is
\* in the stored destination state with the reference resolved at bootstrap.
C11_ReferenceStable ==
  (CycleCompleted \/ (pc = "cycle_start" /\ ~first_cycle)) =>
    \A t \in DOMAIN boot_refs :
      /\ Has(gridly_sheets, t)
      /\ gridly_sheets.val[t].reference = boot_refs[t]
      /\ gridly_sheets.val[t].reference = ViewId(t)

C11_Witness ==
  /\ pc = "cycle_start"
  /\ ~first_cycle
  /\ settled = {}
  /\ prev_pushed # {}
  /\ DOMAIN boot_refs = {"Orders", "Items"}
  /\ \A t \in DOMAIN boot_refs : gridly_sheets.val[t].reference = boot_refs[t]

\* C12: at the end of a completed cycle the stored snapshot of every table
\* processed in it has exactly the rows of the source snapshot built in the
\* cycle, and the only requests made to Gridly after bootstrap are row
\* updates and row creations (no read).
C12_OptimisticApply ==
  /\ CycleCompleted =>
       \A t \in Range(iterating.keys) :
         /\ Has(gridly_sheets, t)
         /\ gridly_sheets.val[t].hashed_rows = SourceRows(t)
  /\ \A i \in DOMAIN calls : calls[i].op \in {"update_row", "create_rows"}

C12_Witness ==
  /\ CycleCompleted
  /\ Len(iterating.keys) = 2
  /\ \E t \in Range(iterating.keys) :
       /\ StoredRows(t) # SourceRows(t)
       /\ gridly_sheets.val[t].hashed_rows = SourceRows(t)
       /\ Len(SourceRows(t)) = 2

\* C13: an exception that escapes the bootstrap or the cycle puts the engine
\* in TERMINATED, and once TERMINATED nothing changes any more: no read, no
\* request, no cycle.
C13_FatalTermination ==
  [][ /\ fatal' # "none" => pc' = "terminated"
      /\ pc = "terminated" => UNCHANGED vars ]_vars

C13_Witness == state = "TERMINATED" /\ fatal = "fetch_grids" /\ calls = <<>>

PositionsInOrder(hashed_rows) ==
  \A i \in DOMAIN hashed_rows : hashed_rows[i].row_id = i - 1

\* C14: in every snapshot built from the source or from Gridly the row_id
\* values are 0..len-1 in order, without gap or duplicate.
C14_Positions ==
  \A d \in {gridly_sheets, current_google_hash, iterating} :
    \A t \in Range(d.keys) : PositionsInOrder(d.val[t].hashed_rows)

C14_Witness ==
  /\ pc = "tables"
  /\ first_cycle
  /\ Has(iterating, "Orders")
  /\ Has(current_google_hash, "Orders")
  /\ Len(StoredRows("Orders")) = 2
  /\ Len(SourceRows("Orders")) = 2
  /\ StoredRows("Orders")[2].row_id = 1
  /\ SourceRows("Orders")[2].row_id = 1

RowIds(call) == {call.rows[j].row_id : j \in DOMAIN call.rows}

\* C15: within a cycle no position of a table is both updated through
\* update_row and created through create_rows.
C15_Disjoint ==
  \A i, j \in DOMAIN calls :
    (/\ calls[i].title = calls[j].title
     /\ calls[i].op = "update_row"
     /\ calls[j].op = "create_rows")
      => RowIds(calls[i]) \cap RowIds(calls[j]) = {}

C15_Witness ==
  \E i, j \in DOMAIN calls :
    /\ calls[i].title = calls[j].title
    /\ calls[i].op = "update_row"
    /\ calls[j].op = "create_rows"
    /\ RowIds(calls[i]) = {0}
    /\ RowIds(calls[j]) = {1}

\* The text of a row: its cells one after another, nothing between them.
RECURSIVE CellText(_)
CellText(cells) == IF cells = <<>> THEN <<>> ELSE Head(cells) \o CellText(Tail(cells))

SameText(r1, r2) == CellText(r1.row_content) = CellText(r2.row_content)

\* C16: rows with the same cell text have the same checksum, whether or not
\* their cells are the same, and sheets_equal does not return a candidate row
\* whose text equals the text of the baseline row at its position.
C16_ConcatenationOnly ==
  Compared =>
    /\ \A r1, r2 \in Range(BaseRows) \cup Range(CandRows) :
         SameText(r1, r2) => r1.row_checksum = r2.row_checksum
    /\ \A i \in DOMAIN CandRows \cap DOMAIN BaseRows :
         SameText(CandRows[i], BaseRows[i]) => CandRows[i] \notin Range(d_changed.rows)

C16_Witness ==
  /\ Compared
  /\ Len(CandRows) = Len(BaseRows)
  /\ \E i \in DOMAIN CandRows :
       /\ CandRows[i].row_content # BaseRows[i].row_content
       /\ SameText(CandRows[i], BaseRows[i])
       /\ DifferingBy(CellsOf) = {i}
  /\ d_changed = ListResult(<<>>)

\* C19: sheets_equal returns None when the title is missing from the
\* candidate dict, a list when it is there, the empty list when no position
\* differs; None is not the empty list.
C19_NoDataSignal ==
  d_pc = "compared" =>
    /\ ~Has(d_google_sheets, "Orders") => d_changed = NoneResult
    /\ Has(d_google_sheets, "Orders") => ~d_changed.is_none
    /\ (Has(d_google_sheets, "Orders") /\ DifferingBy(ChecksumOf) = {})
         => d_changed = ListResult(<<>>)
    /\ NoneResult # ListResult(<<>>)

C19_Witness ==
  /\ d_pc = "compared"
  /\ ~Has(d_google_sheets, "Orders")
  /\ Len(BaseRows) >= 1
  /\ d_changed.is_none

\* The tables whose iteration of the for loop has finished in this cycle.
Finished ==
  IF pc \notin {"tables", "terminated"} THEN {}
  ELSE {iterating.keys[i] : i \in 1..(idx - 1)}

RequestsFor(t, op) ==
  LET Wanted(c) == c.title = t /\ c.op = op
  IN  SelectSeq(calls, Wanted)

\* C17: for a table whose iteration has finished, there is one update_row
\* request per row sheets_equal reports, in that order and keyed by the row's
\* first cell, and the rows find_new_rows reports are sent in one create_rows
\* request (none when it reports no row).
C17_PushShape ==
  \A t \in Finished :
    LET changed == sheets_equal(t, iterating.val[t], current_google_hash)
        new_rows == find_new_rows(current_google_hash, iterating.val[t])
        updates == RequestsFor(t, "update_row")
        creates == RequestsFor(t, "create_rows")
    IN  /\ Len(updates) = Len(changed.rows)
        /\ \A k \in DOMAIN updates :
             /\ updates[k].rows = <<changed.rows[k]>>
             /\ updates[k].record_ids = <<changed.rows[k].row_content[1]>>
        /\ Len(creates) <= 1
        /\ Truthy(new_rows) => (Len(creates) = 1 /\ creates[1].rows = new_rows.rows)
        /\ ~Truthy(new_rows) => creates = <<>>

C17_Witness ==
  \E t \in Finished :
    /\ Len(RequestsFor(t, "update_row")) = 2
    /\ RequestsFor(t, "create_rows") = <<>>
    /\ \E u \in Finished : Len(RequestsFor(u, "create_rows")) = 1

\* C18: for a grid whose sheet was read at bootstrap, the initial comparison
\* logs "fully matches" exactly when sheets_equal found no differing
\* position, and "does not match" otherwise; the engine is RUNNING afterwards.
C18_BootstrapComparison ==
  (pc = "cycle_start" /\ first_cycle) =>
    /\ state = "RUNNING"
    /\ \A t \in DOMAIN boot_status :
         ~boot_compare[t].is_none =>
           /\ boot_status[t] \in {"fully matches", "does not match"}
           /\ (boot_status[t] = "fully matches") <=> (boot_compare[t].rows = <<>>)

\* C20: every request of a cycle is addressed to the reference resolved at
\* bootstrap for its table, never to a missing (None) reference.
C20_PopulatedReference ==
  \A i \in DOMAIN calls :
    /\ calls[i].view_id # None
    /\ calls[i].title \in DOMAIN boot_refs
    /\ calls[i].view_id = boot_refs[calls[i].title]

====
